---- MODULE Spec2Model ----
(***************************************************************************)
(* Model of src/lib.rs of levenshtein-rs: the four public functions        *)
(*   levenshtein, levenshtein_with_weigths,                                *)
(*   levenshtein_is_within_limit, levenshtein_is_within_limit_with_weigths *)
(* One behaviour of the model is one call of one of them, stepped through  *)
(* its short circuits, its row loop and its cell loop.                     *)
(*                                                                         *)
(* usize is modelled with UsizeBits bits.  The sums of the cell loop are   *)
(* plain `+` on usize: a build with overflow checks panics on a sum that   *)
(* leaves the range, a build without them wraps it modulo 2^UsizeBits.     *)
(***************************************************************************)
EXTENDS Integers, Sequences, FiniteSets, TLC

VARIABLES entry, pc, a, b, limit, substitute, delete, insert,
          cache, left, diagonal, i, j, best_of_row,
          ret_usize, ret_bool, wrapped

vars == << entry, pc, a, b, limit, substitute, delete, insert,
           cache, left, diagonal, i, j, best_of_row,
           ret_usize, ret_bool, wrapped >>

(***************************************************************************)
(* The variables and the places of lib.rs they stand for:                  *)
(*   a, b                        the arguments a, b (lines 56-57, 143-144) *)
(*   limit                       the argument limit (line 145)             *)
(*   substitute, delete, insert  the weights (lines 58-60, 146-148)        *)
(*   cache                       let mut cache (lines 80, 168)             *)
(*   left                        let mut left (lines 84, 172)              *)
(*   diagonal                    let mut diagonal (lines 87, 175)          *)
(*   i, j                        the indices of the two enumerate() loops  *)
(*   best_of_row                 let mut best_of_row (line 178)            *)
(*   ret_usize, ret_bool         the value returned                        *)
(* entry, pc and wrapped are described with the state machine below.       *)
(***************************************************************************)

(***************************************************************************)
(* Bounds of the model.  The weighted functions are called with strings   *)
(* of at most MaxLen characters, weights in 0..MaxWeight or usize::MAX and *)
(* limits in 0..MaxLimit; the unit-weight wrappers are called with strings *)
(* of at most MaxUnitLen characters.                                       *)
(***************************************************************************)
MaxLen == 2

MaxUnitLen == 4

MaxWeight == 2

MaxLimit == 4

UsizeBits == 5

Chars == {"x", "y"}

StringsUpTo(n) == UNION {[1..m -> Chars] : m \in 0..n}

(***************************************************************************)
(* usize arithmetic.                                                       *)
(***************************************************************************)
usize_MAX == 2^UsizeBits - 1

wrapping_add(x, y) == (x + y) % (usize_MAX + 1)

overflows(x, y) == x + y > usize_MAX

usize_from(p) == IF p THEN 1 ELSE 0

min(x, y) == IF y < x THEN y ELSE x

Weights == (0..MaxWeight) \cup {usize_MAX}

Limits == 0..MaxLimit

(***************************************************************************)
(* (1..=b_len).collect::<Vec<_>>()                                         *)
(***************************************************************************)
first_row(b_len) == [k \in 1..b_len |-> k]

(***************************************************************************)
(* Two faulty variants of the inner loop's body, used to show that the     *)
(* properties below depend on it.  The first takes the diagonal for the    *)
(* next column after cache[j] has been overwritten; the second does not    *)
(* charge a substitution.                                                  *)
(***************************************************************************)
cell_stale_diagonal(st, jj, ca, cb, sub, del, ins) ==
    LET m1 == wrapping_add(st.diagonal, usize_from(ca # cb) * sub)
        m2 == wrapping_add(st.cache[jj + 1], del)
        m3 == wrapping_add(st.left, ins)
        best == min(min(m1, m2), m3)
    IN  [st EXCEPT !.diagonal = best,
                   !.left = best,
                   !.cache = [st.cache EXCEPT ![jj + 1] = best],
                   !.overflow = \/ st.overflow
                                \/ overflows(st.diagonal, usize_from(ca # cb) * sub)
                                \/ overflows(st.cache[jj + 1], del)
                                \/ overflows(st.left, ins)]

cell_free_substitute(st, jj, ca, cb, sub, del, ins) ==
    LET m1 == st.diagonal
        m2 == wrapping_add(st.cache[jj + 1], del)
        m3 == wrapping_add(st.left, ins)
        best == min(min(m1, m2), m3)
    IN  [st EXCEPT !.diagonal = st.cache[jj + 1],
                   !.left = best,
                   !.cache = [st.cache EXCEPT ![jj + 1] = best],
                   !.overflow = \/ st.overflow
                                \/ overflows(st.cache[jj + 1], del)
                                \/ overflows(st.left, ins)]

(***************************************************************************)
(* One pass of the body of the inner loop, lines 92-108 (and, textually    *)
(* the same, lines 182-198).  st holds the registers; jj is the 0-based    *)
(* column index of the source, so cache[j] of the source is st.cache[jj+1].*)
(* st.overflow records that some sum so far left the range of usize.       *)
(***************************************************************************)
cell(st, jj, ca, cb, sub, del, ins) ==
    LET m1 == wrapping_add(st.diagonal, usize_from(ca # cb) * sub)
        m2 == wrapping_add(st.cache[jj + 1], del)
        m3 == wrapping_add(st.left, ins)
        best == min(min(m1, m2), m3)
    IN  [st EXCEPT !.diagonal = st.cache[jj + 1],
                   !.left = best,
                   !.cache = [st.cache EXCEPT ![jj + 1] = best],
                   !.overflow = \/ st.overflow
                                \/ overflows(st.diagonal, usize_from(ca # cb) * sub)
                                \/ overflows(st.cache[jj + 1], del)
                                \/ overflows(st.left, ins)]

(***************************************************************************)
(* if best < best_of_row { best_of_row = best; }   (lines 200-202)         *)
(***************************************************************************)
track_best(st) ==
    [st EXCEPT !.best_of_row = IF st.left < st.best_of_row
                               THEN st.left ELSE st.best_of_row]

(***************************************************************************)
(* if best_of_row > limit { return false; }   (lines 205-207), after a     *)
(* faulty variant that also leaves when the row's minimum equals the limit.*)
(***************************************************************************)
exceeds_limit_or_equals(best, lim) == best >= lim

exceeds_limit(best, lim) == best > lim

(***************************************************************************)
(* The empty-input short circuits of the within-limit function             *)
(* (lines 160-165): b_len < limit, a_len < limit, after a faulty variant   *)
(* with the comparison turned round.                                       *)
(***************************************************************************)
empty_within_reversed(len, lim) == len > lim

empty_within(len, lim) == len < lim

(***************************************************************************)
(* The registers before the first row: cache is the first row, left = 1    *)
(* (line 84; the within-limit function leaves left unassigned, line 172,   *)
(* and assigns it at the start of every row, as this does).                *)
(***************************************************************************)
registers(bb) ==
    [cache |-> first_row(Len(bb)), diagonal |-> 0, left |-> 1,
     best_of_row |-> usize_MAX, overflow |-> FALSE]

(***************************************************************************)
(* The start of a row: diagonal = i, left = diagonal + 1 (lines 87-88,     *)
(* 175-176) and best_of_row = usize::MAX (line 178).                       *)
(***************************************************************************)
row_start(st, ii) ==
    [st EXCEPT !.diagonal = ii, !.left = ii + 1, !.best_of_row = usize_MAX]

(***************************************************************************)
(* levenshtein_with_weigths as a function of its arguments: the inner loop *)
(* over b.chars(), the outer loop over a.chars(), the short circuits.      *)
(* The value is the one a build without overflow checks returns; .overflow *)
(* tells whether some sum left the range (a build with overflow checks     *)
(* panics exactly then).                                                   *)
(***************************************************************************)
RECURSIVE distance_inner(_, _, _, _, _, _, _)
distance_inner(st, jj, ca, bb, sub, del, ins) ==
    IF jj = Len(bb) THEN st
    ELSE distance_inner(cell(st, jj, ca, bb[jj + 1], sub, del, ins),
                        jj + 1, ca, bb, sub, del, ins)

RECURSIVE distance_outer(_, _, _, _, _, _, _)
distance_outer(st, ii, aa, bb, sub, del, ins) ==
    IF ii = Len(aa) THEN st
    ELSE distance_outer(
             distance_inner(row_start(st, ii), 0, aa[ii + 1], bb, sub, del, ins),
             ii + 1, aa, bb, sub, del, ins)

distance_call(aa, bb, sub, del, ins) ==
    IF aa = bb THEN [ret |-> 0, overflow |-> FALSE]
    ELSE IF aa = <<>> THEN [ret |-> Len(bb), overflow |-> FALSE]
    ELSE IF bb = <<>> THEN [ret |-> Len(aa), overflow |-> FALSE]
    ELSE LET st == distance_outer(registers(bb), 0, aa, bb, sub, del, ins)
         IN  [ret |-> st.left, overflow |-> st.overflow]

levenshtein_with_weigths(aa, bb, sub, del, ins) ==
    distance_call(aa, bb, sub, del, ins).ret

levenshtein(aa, bb) == levenshtein_with_weigths(aa, bb, 1, 1, 1)

(***************************************************************************)
(* levenshtein_is_within_limit_with_weigths as a function of its           *)
(* arguments.  The outer loop returns false as soon as a row's minimum     *)
(* exceeds the limit, and true when the rows are exhausted.                *)
(***************************************************************************)
RECURSIVE within_inner(_, _, _, _, _, _, _)
within_inner(st, jj, ca, bb, sub, del, ins) ==
    IF jj = Len(bb) THEN st
    ELSE within_inner(track_best(cell(st, jj, ca, bb[jj + 1], sub, del, ins)),
                      jj + 1, ca, bb, sub, del, ins)

RECURSIVE within_outer(_, _, _, _, _, _, _, _)
within_outer(st, ii, aa, bb, lim, sub, del, ins) ==
    IF ii = Len(aa) THEN [ret |-> TRUE, overflow |-> st.overflow]
    ELSE LET row == within_inner(row_start(st, ii), 0, aa[ii + 1], bb,
                                 sub, del, ins)
         IN  IF exceeds_limit(row.best_of_row, lim)
             THEN [ret |-> FALSE, overflow |-> row.overflow]
             ELSE within_outer(row, ii + 1, aa, bb, lim, sub, del, ins)

within_call(aa, bb, lim, sub, del, ins) ==
    IF aa = bb THEN [ret |-> TRUE, overflow |-> FALSE]
    ELSE IF aa = <<>> THEN [ret |-> empty_within(Len(bb), lim), overflow |-> FALSE]
    ELSE IF bb = <<>> THEN [ret |-> empty_within(Len(aa), lim), overflow |-> FALSE]
    ELSE within_outer(registers(bb), 0, aa, bb, lim, sub, del, ins)

levenshtein_is_within_limit_with_weigths(aa, bb, lim, sub, del, ins) ==
    within_call(aa, bb, lim, sub, del, ins).ret

levenshtein_is_within_limit(aa, bb, lim) ==
    levenshtein_is_within_limit_with_weigths(aa, bb, lim, 1, 1, 1)

(***************************************************************************)
(* The state machine: one call, step by step.                              *)
(*   entry  the public function called                                     *)
(*   pc     "call"   a wrapper about to delegate                           *)
(*          "begin"  at the top of the weighted function                   *)
(*          "row"    at the head of the outer loop                         *)
(*          "cell"   at the head of the inner loop                         *)
(*          "done"   returned (ret_usize or ret_bool holds the result)     *)
(*          "panic"  aborted by an overflow check                          *)
(*   wrapped  some sum of this call was wrapped modulo 2^UsizeBits         *)
(***************************************************************************)
Wrappers == {"levenshtein", "levenshtein_is_within_limit"}

DistanceEntries == {"levenshtein", "levenshtein_with_weigths"}

WithinEntries == {"levenshtein_is_within_limit",
                  "levenshtein_is_within_limit_with_weigths"}

Entries == DistanceEntries \cup WithinEntries

Init ==
    /\ entry \in Entries
    /\ a \in StringsUpTo(IF entry \in Wrappers THEN MaxUnitLen ELSE MaxLen)
    /\ b \in StringsUpTo(IF entry \in Wrappers THEN MaxUnitLen ELSE MaxLen)
    /\ limit \in (IF entry \in WithinEntries THEN Limits ELSE {0})
    /\ substitute \in (IF entry \in Wrappers THEN {0} ELSE Weights)
    /\ delete \in (IF entry \in Wrappers THEN {0} ELSE Weights)
    /\ insert \in (IF entry \in Wrappers THEN {0} ELSE Weights)
    /\ pc = (IF entry \in Wrappers THEN "call" ELSE "begin")
    /\ cache = << >>
    /\ left = 0
    /\ diagonal = 0
    /\ i = 0
    /\ j = 0
    /\ best_of_row = 0
    /\ ret_usize = 0
    /\ ret_bool = FALSE
    /\ wrapped = FALSE

regs ==
    [cache |-> cache, diagonal |-> diagonal, left |-> left,
     best_of_row |-> best_of_row, overflow |-> FALSE]

(***************************************************************************)
(* levenshtein(a, b) = levenshtein_with_weigths(a, b, 1, 1, 1)  and        *)
(* levenshtein_is_within_limit(a, b, limit) =                              *)
(*     levenshtein_is_within_limit_with_weigths(a, b, limit, 1, 1, 1)      *)
(***************************************************************************)
call_levenshtein ==
    /\ pc = "call"
    /\ entry = "levenshtein"
    /\ substitute' = 1
    /\ delete' = 1
    /\ insert' = 1
    /\ pc' = "begin"
    /\ UNCHANGED << entry, a, b, limit, cache, left, diagonal, i, j,
                    best_of_row, ret_usize, ret_bool, wrapped >>

call_levenshtein_is_within_limit ==
    /\ pc = "call"
    /\ entry = "levenshtein_is_within_limit"
    /\ substitute' = 1
    /\ delete' = 1
    /\ insert' = 1
    /\ pc' = "begin"
    /\ UNCHANGED << entry, a, b, limit, cache, left, diagonal, i, j,
                    best_of_row, ret_usize, ret_bool, wrapped >>

(***************************************************************************)
(* levenshtein_with_weigths                                                *)
(***************************************************************************)
distance_return(v) ==
    /\ ret_usize' = v
    /\ pc' = "done"
    /\ UNCHANGED << entry, a, b, limit, substitute, delete, insert, cache,
                    left, diagonal, i, j, best_of_row, ret_bool, wrapped >>

distance_equal ==
    /\ pc = "begin"
    /\ entry \in DistanceEntries
    /\ a = b
    /\ distance_return(0)

distance_empty_a ==
    /\ pc = "begin"
    /\ entry \in DistanceEntries
    /\ a # b
    /\ a = << >>
    /\ distance_return(Len(b))

distance_empty_b ==
    /\ pc = "begin"
    /\ entry \in DistanceEntries
    /\ a # b
    /\ a # << >>
    /\ b = << >>
    /\ distance_return(Len(a))

distance_init ==
    /\ pc = "begin"
    /\ entry \in DistanceEntries
    /\ a # b
    /\ a # << >>
    /\ b # << >>
    /\ cache' = first_row(Len(b))
    /\ left' = 1
    /\ i' = 0
    /\ pc' = "row"
    /\ UNCHANGED << entry, a, b, limit, substitute, delete, insert, diagonal,
                    j, best_of_row, ret_usize, ret_bool, wrapped >>

distance_row ==
    /\ pc = "row"
    /\ entry \in DistanceEntries
    /\ i < Len(a)
    /\ diagonal' = i
    /\ left' = i + 1
    /\ j' = 0
    /\ pc' = "cell"
    /\ UNCHANGED << entry, a, b, limit, substitute, delete, insert, cache, i,
                    best_of_row, ret_usize, ret_bool, wrapped >>

distance_cell ==
    /\ pc = "cell"
    /\ entry \in DistanceEntries
    /\ j < Len(b)
    /\ LET st == cell(regs, j, a[i + 1], b[j + 1], substitute, delete, insert)
       IN  \/ /\ ~st.overflow
              /\ cache' = st.cache
              /\ diagonal' = st.diagonal
              /\ left' = st.left
              /\ j' = j + 1
              /\ UNCHANGED << pc, wrapped >>
           \/ /\ st.overflow
              /\ cache' = st.cache
              /\ diagonal' = st.diagonal
              /\ left' = st.left
              /\ j' = j + 1
              /\ wrapped' = TRUE
              /\ UNCHANGED pc
           \/ /\ st.overflow
              /\ ~wrapped
              /\ pc' = "panic"
              /\ UNCHANGED << cache, diagonal, left, j, wrapped >>
    /\ UNCHANGED << entry, a, b, limit, substitute, delete, insert, i,
                    best_of_row, ret_usize, ret_bool >>

distance_row_end ==
    /\ pc = "cell"
    /\ entry \in DistanceEntries
    /\ j = Len(b)
    /\ i' = i + 1
    /\ pc' = "row"
    /\ UNCHANGED << entry, a, b, limit, substitute, delete, insert, cache,
                    left, diagonal, j, best_of_row, ret_usize, ret_bool,
                    wrapped >>

distance_result ==
    /\ pc = "row"
    /\ entry \in DistanceEntries
    /\ i = Len(a)
    /\ distance_return(left)

(***************************************************************************)
(* levenshtein_is_within_limit_with_weigths                                *)
(***************************************************************************)
within_return(v) ==
    /\ ret_bool' = v
    /\ pc' = "done"
    /\ UNCHANGED << entry, a, b, limit, substitute, delete, insert, cache,
                    left, diagonal, j, best_of_row, ret_usize, wrapped >>

within_equal ==
    /\ pc = "begin"
    /\ entry \in WithinEntries
    /\ a = b
    /\ within_return(TRUE)
    /\ UNCHANGED i

within_empty_a ==
    /\ pc = "begin"
    /\ entry \in WithinEntries
    /\ a # b
    /\ a = << >>
    /\ within_return(empty_within(Len(b), limit))
    /\ UNCHANGED i

within_empty_b ==
    /\ pc = "begin"
    /\ entry \in WithinEntries
    /\ a # b
    /\ a # << >>
    /\ b = << >>
    /\ within_return(empty_within(Len(a), limit))
    /\ UNCHANGED i

within_init ==
    /\ pc = "begin"
    /\ entry \in WithinEntries
    /\ a # b
    /\ a # << >>
    /\ b # << >>
    /\ cache' = first_row(Len(b))
    /\ i' = 0
    /\ pc' = "row"
    /\ UNCHANGED << entry, a, b, limit, substitute, delete, insert, left,
                    diagonal, j, best_of_row, ret_usize, ret_bool, wrapped >>

within_row ==
    /\ pc = "row"
    /\ entry \in WithinEntries
    /\ i < Len(a)
    /\ diagonal' = i
    /\ left' = i + 1
    /\ best_of_row' = usize_MAX
    /\ j' = 0
    /\ pc' = "cell"
    /\ UNCHANGED << entry, a, b, limit, substitute, delete, insert, cache, i,
                    ret_usize, ret_bool, wrapped >>

within_cell ==
    /\ pc = "cell"
    /\ entry \in WithinEntries
    /\ j < Len(b)
    /\ LET st == track_best(cell(regs, j, a[i + 1], b[j + 1],
                                 substitute, delete, insert))
       IN  \/ /\ ~st.overflow
              /\ cache' = st.cache
              /\ diagonal' = st.diagonal
              /\ left' = st.left
              /\ best_of_row' = st.best_of_row
              /\ j' = j + 1
              /\ UNCHANGED << pc, wrapped >>
           \/ /\ st.overflow
              /\ cache' = st.cache
              /\ diagonal' = st.diagonal
              /\ left' = st.left
              /\ best_of_row' = st.best_of_row
              /\ j' = j + 1
              /\ wrapped' = TRUE
              /\ UNCHANGED pc
           \/ /\ st.overflow
              /\ ~wrapped
              /\ pc' = "panic"
              /\ UNCHANGED << cache, diagonal, left, best_of_row, j, wrapped >>
    /\ UNCHANGED << entry, a, b, limit, substitute, delete, insert, i,
                    ret_usize, ret_bool >>

within_early_exit ==
    /\ pc = "cell"
    /\ entry \in WithinEntries
    /\ j = Len(b)
    /\ exceeds_limit(best_of_row, limit)
    /\ within_return(FALSE)
    /\ UNCHANGED i

within_row_end ==
    /\ pc = "cell"
    /\ entry \in WithinEntries
    /\ j = Len(b)
    /\ ~exceeds_limit(best_of_row, limit)
    /\ i' = i + 1
    /\ pc' = "row"
    /\ UNCHANGED << entry, a, b, limit, substitute, delete, insert, cache,
                    left, diagonal, j, best_of_row, ret_usize, ret_bool,
                    wrapped >>

within_result ==
    /\ pc = "row"
    /\ entry \in WithinEntries
    /\ i = Len(a)
    /\ within_return(TRUE)
    /\ UNCHANGED i

Next ==
    \/ call_levenshtein
    \/ call_levenshtein_is_within_limit
    \/ distance_equal
    \/ distance_empty_a
    \/ distance_empty_b
    \/ distance_init
    \/ distance_row
    \/ distance_cell
    \/ distance_row_end
    \/ distance_result
    \/ within_equal
    \/ within_empty_a
    \/ within_empty_b
    \/ within_init
    \/ within_row
    \/ within_cell
    \/ within_early_exit
    \/ within_row_end
    \/ within_result

Spec == Init /\ [][Next]_vars

(***************************************************************************)
(* Sanity of the model: the stepped call and the functional form agree.    *)
(***************************************************************************)
TypeOK ==
    /\ entry \in Entries
    /\ pc \in {"call", "begin", "row", "cell", "done", "panic"}
    /\ limit \in Limits
    /\ ret_usize \in 0..usize_MAX
    /\ ret_bool \in BOOLEAN
    /\ wrapped \in BOOLEAN
    /\ \A k \in DOMAIN cache : cache[k] \in 0..usize_MAX

StepsAgreeWithFunctions ==
    pc = "done" =>
        IF entry \in DistanceEntries
        THEN LET r == distance_call(a, b, substitute, delete, insert)
             IN  ret_usize = r.ret /\ wrapped = r.overflow
        ELSE LET r == within_call(a, b, limit, substitute, delete, insert)
             IN  ret_bool = r.ret /\ wrapped = r.overflow

(***************************************************************************)
(* The reference recurrence of the edit-distance matrix, over the          *)
(* unbounded integers: D(aa, bb, ii, jj, ...) is the minimum cost of       *)
(* turning the first ii characters of aa into the first jj of bb.          *)
(***************************************************************************)
RECURSIVE D(_, _, _, _, _, _, _)
D(aa, bb, ii, jj, sub, del, ins) ==
    IF ii = 0 THEN jj * ins
    ELSE IF jj = 0 THEN ii * del
    ELSE min(min(D(aa, bb, ii - 1, jj - 1, sub, del, ins)
                     + (IF aa[ii] = bb[jj] THEN 0 ELSE sub),
                 D(aa, bb, ii - 1, jj, sub, del, ins) + del),
             D(aa, bb, ii, jj - 1, sub, del, ins) + ins)

edit_distance(aa, bb, sub, del, ins) ==
    D(aa, bb, Len(aa), Len(bb), sub, del, ins)

Returned == pc = "done"

InRange == ~wrapped

(***************************************************************************)
(* C1.  levenshtein_with_weigths(a, b, substitute, delete, insert) returns *)
(* the value D[|a|][|b|] of the reference recurrence, for all a, b and all *)
(* non-negative weights.  Stated for the calls that leave the short        *)
(* circuits aside (a and b non-empty) and in which no sum leaves the range *)
(* of usize: the claim covers them, so a violation here refutes it.        *)
(***************************************************************************)
C1_WeightedDistanceIsReference ==
    (/\ Returned
     /\ entry = "levenshtein_with_weigths"
     /\ InRange
     /\ a # << >>
     /\ b # << >>) =>
        ret_usize = edit_distance(a, b, substitute, delete, insert)

(***************************************************************************)
(* C2.  levenshtein(a, b) returns the unit-cost Levenshtein distance of a  *)
(* and b, empty strings included: the reference recurrence with all three  *)
(* weights 1.                                                              *)
(***************************************************************************)
C2_UnitDistance ==
    (Returned /\ entry = "levenshtein") =>
        ret_usize = edit_distance(a, b, 1, 1, 1)

C2_Witness ==
    /\ Returned
    /\ entry = "levenshtein"
    /\ Len(a) = MaxUnitLen
    /\ Len(b) = MaxUnitLen - 1
    /\ i = Len(a)
    /\ ret_usize = 2
    /\ ret_usize = edit_distance(a, b, 1, 1, 1)

(***************************************************************************)
(* C3.  levenshtein_is_within_limit(a, b, k) returns true if and only if   *)
(* levenshtein(a, b) <= k.                                                 *)
(***************************************************************************)
C3_WithinIffDistanceAtMost ==
    (Returned /\ entry = "levenshtein_is_within_limit") =>
        (ret_bool <=> levenshtein(a, b) <= limit)

(***************************************************************************)
(* C4.  levenshtein_with_weigths(a, b, w, w, w) = w * levenshtein(a, b)    *)
(* for every non-negative w.  Stated for the calls that leave the short    *)
(* circuits aside (a and b non-empty) and in which no sum leaves the range *)
(* of usize: the claim covers them, so a violation here refutes it.        *)
(***************************************************************************)
C4_WeightScaling ==
    (/\ Returned
     /\ entry = "levenshtein_with_weigths"
     /\ InRange
     /\ a # << >>
     /\ b # << >>
     /\ delete = substitute
     /\ insert = substitute) =>
        ret_usize = substitute * levenshtein(a, b)

(***************************************************************************)
(* C5.  As claimed: for all non-negative weights, zero weights included,   *)
(* levenshtein_with_weigths returns 0 if and only if a and b are identical *)
(* (stated for the calls in which no sum leaves the range of usize).       *)
(***************************************************************************)
C5_ZeroIffIdentical ==
    (Returned /\ entry = "levenshtein_with_weigths" /\ InRange) =>
        (ret_usize = 0 <=> a = b)

(***************************************************************************)
(* C5, amended.  For all weights that are all three positive, in the calls *)
(* in which no sum leaves the range of usize, levenshtein_with_weigths     *)
(* returns 0 if and only if a and b are identical.                         *)
(***************************************************************************)
C5_ZeroIffIdenticalPositiveWeights ==
    (/\ Returned
     /\ entry = "levenshtein_with_weigths"
     /\ InRange
     /\ substitute > 0
     /\ delete > 0
     /\ insert > 0) =>
        (ret_usize = 0 <=> a = b)

C5_Witness ==
    /\ Returned
    /\ entry = "levenshtein_with_weigths"
    /\ InRange
    /\ substitute > 0
    /\ delete > 0
    /\ insert > 0
    /\ a # b
    /\ Len(a) = MaxLen
    /\ Len(b) = MaxLen
    /\ a[1] = b[1]
    /\ i = Len(a)
    /\ ret_usize > 0

(***************************************************************************)
(* C6.  The within-limit answer is monotone in the limit: when a call of   *)
(* levenshtein_is_within_limit_with_weigths (directly, or through          *)
(* levenshtein_is_within_limit) returns true for limit k, the same call    *)
(* with limit k + 1 returns true, and meets an out-of-range sum only if    *)
(* the call with limit k met one.                                          *)
(***************************************************************************)
C6_MonotoneInLimit ==
    (Returned /\ entry \in WithinEntries /\ ret_bool) =>
        LET next == within_call(a, b, limit + 1, substitute, delete, insert)
        IN  next.ret /\ (next.overflow => wrapped)

C6_Witness ==
    /\ Returned
    /\ entry = "levenshtein_is_within_limit_with_weigths"
    /\ ret_bool
    /\ InRange
    /\ a # b
    /\ Len(a) = MaxLen
    /\ Len(b) = MaxLen
    /\ i = Len(a)
    /\ limit > 0
    /\ substitute # 1
    /\ within_call(a, b, limit + 1, substitute, delete, insert).ret
    /\ ~within_call(a, b, limit - 1, substitute, delete, insert).ret

(***************************************************************************)
(* C7.  Arithmetic overflow is never silent: no call continues with, and   *)
(* no result is computed from, a sum wrapped modulo 2^UsizeBits.           *)
(***************************************************************************)
C7_OverflowIsReported == ~wrapped

(***************************************************************************)
(* C8.  Cost-row invariant of levenshtein_with_weigths, for non-empty,     *)
(* non-identical a and b: before the first row cache[j-1] = j * insert,    *)
(* and after the outer loop has processed the i-th character of a,         *)
(* cache[j-1] = D[i][j], for every j in 1..|b| (stated for the calls in    *)
(* which no sum leaves the range of usize).                                *)
(***************************************************************************)
C8_CostRowInvariant ==
    (pc = "row" /\ entry \in DistanceEntries /\ InRange) =>
        \A jj \in 1..Len(b) :
            cache[jj] = D(a, b, i, jj, substitute, delete, insert)

(***************************************************************************)
(* C9.  Soundness of the early exit of                                     *)
(* levenshtein_is_within_limit_with_weigths, for non-empty, non-identical  *)
(* a and b: when the function returns false because a row's minimum        *)
(* exceeds limit, levenshtein_with_weigths(a, b, substitute, delete,       *)
(* insert) > limit (stated for the calls in which no sum of either         *)
(* function leaves the range of usize).                                    *)
(***************************************************************************)
EarlyExit ==
    /\ Returned
    /\ entry \in WithinEntries
    /\ a # b
    /\ a # << >>
    /\ b # << >>
    /\ ~ret_bool

C9_EarlyExitIsSound ==
    (/\ EarlyExit
     /\ InRange
     /\ ~distance_call(a, b, substitute, delete, insert).overflow) =>
        levenshtein_with_weigths(a, b, substitute, delete, insert) > limit

(***************************************************************************)
(* C10.  No false negatives under unit weights: for non-empty a and b and  *)
(* every limit k, if levenshtein(a, b) <= k then                           *)
(* levenshtein_is_within_limit(a, b, k) returns true.                      *)
(***************************************************************************)
C10_NoFalseNegativeUnitWeights ==
    (/\ Returned
     /\ entry = "levenshtein_is_within_limit"
     /\ a # << >>
     /\ b # << >>
     /\ levenshtein(a, b) <= limit) =>
        ret_bool

C10_Witness ==
    /\ Returned
    /\ entry = "levenshtein_is_within_limit"
    /\ a # b
    /\ Len(a) = MaxUnitLen
    /\ b # << >>
    /\ i = Len(a)
    /\ levenshtein(a, b) = limit
    /\ limit < Len(a)
    /\ ret_bool

====
